---------------------------- MODULE Spec2Model ----------------------------
(***************************************************************************)
(* State-machine model of primesieve's EratBig (src/src/soe/EratBig.cpp):  *)
(* the bucket-sorted cross-off engine for big sieving primes.              *)
(*                                                                         *)
(* The EratBig object is the record of its data members (lists_, stock_,   *)
(* pointers_, log2SieveSize_, moduloSieveSize_) together with the bucket   *)
(* memory it points into (mem, live), the allocator's remaining budget     *)
(* (fuel), a pending C++ exception / undefined-behaviour marker (exc) and  *)
(* observation-only history fields (t, due, log, hist).  Every member      *)
(* function is an operator from records to records; the actions at the end *)
(* of the module apply them and install the result in the variables.       *)
(*                                                                         *)
(* uint_t is 32 bits wide in the source; every quantity of the model stays *)
(* far below 2^32, so no wrap-around is modelled.                          *)
(***************************************************************************)
EXTENDS Integers, Sequences, FiniteSets, TLC

VARIABLES
  pc,                \* position of the owner: "new", "ready", "ctor_threw", "threw", "destroyed"
  sieveSize,         \* soe.getSieveSize()
  sqrtStop,          \* soe.getSqrtStop()
  start,             \* low end of the first segment (a multiple of 30)
  lists_,            \* std::vector<Bucket*> lists_   (bucket ids, NULL = 0)
  stock_,            \* Bucket* stock_
  pointers_,         \* std::list<Bucket*> pointers_  (slab ids)
  log2SieveSize_,    \* const uint_t log2SieveSize_
  moduloSieveSize_,  \* const uint_t moduloSieveSize_
  mem,               \* bucket memory: bucket id -> [next, wp]
  live,              \* slabs obtained from new[] and not yet delete[]d
  fuel,              \* number of new[] calls that will still succeed
  exc,               \* "none" or the exception / undefined behaviour raised
  sieve,             \* the sieve array handed to the last crossOff call
  t,                 \* number of completed crossOff calls (current segment number)
  due,               \* history: prime -> [seg: segment number it was last routed to, at: when]
  log,               \* history: the wheel steps taken by the last crossOff call
  hist,              \* history: what the calls did on the way (see NoHist)
  stored,            \* history: the sieving primes handed to storeSievingPrime
  last               \* history: the last operation and its arguments

vars == <<pc, sieveSize, sqrtStop, start, lists_, stock_, pointers_, log2SieveSize_,
          moduloSieveSize_, mem, live, fuel, exc, sieve, t, due, log, hist, stored,
          last>>

-----------------------------------------------------------------------------
(* Bounds of the model *)

\* Buckets per slab (new Bucket[BUCKETS_PER_ALLOC]), scaled down.
BUCKETS_PER_ALLOC == 2
\* WheelPrimes per bucket, scaled down.
BUCKET_SIZE == 3
\* Largest number of new[] calls the allocator grants before it fails.
MaxFuel == 6
\* Allocation budgets tried: failure at the first or the second new[], or later.
Fuels == {0, 1, MaxFuel - 1, MaxFuel}
\* Number of sieving primes handed to the engine.
MaxStored == 3
\* Number of segments sieved (crossOff calls).
MaxSegments == 4

\* Inputs of the constructor: sieve sizes (bytes) and sqrt(stop) values.
SieveSizes == {4, 6}
SqrtStops == {89}
\* Low ends of the first segment.
Starts == {5760}
\* Sieving primes the driver may hand to the engine.
Primes == {31, 37, 61}

\* Inputs of the routing specification: log2 of the sieve sizes, sqrt(stop) values.
MaxLog2 == 3
RouteSqrtStops == {0, 59, 89, 119}
\* An allocation budget that construction never exhausts.
RouteFuel == 64

NULL == 0

-----------------------------------------------------------------------------
(* imath.h *)

RECURSIVE BitAnd(_, _)
BitAnd(a, b) ==
  IF a = 0 \/ b = 0 THEN 0
  ELSE (a % 2) * (b % 2) + 2 * BitAnd(a \div 2, b \div 2)

ShiftRight(a, n) == a \div (2 ^ n)

isPowerOf2(x) == x # 0 /\ BitAnd(x, x - 1) = 0

RECURSIVE ilog2(_)
ilog2(x) == IF x <= 1 THEN 0 ELSE 1 + ilog2(x \div 2)

-----------------------------------------------------------------------------
(* WheelFactorization.h: the modulo 210 wheel *)

NUMBERS_PER_BYTE == 30

\* residues of the 8 bits of a sieve byte
Res30 == <<1, 7, 11, 13, 17, 19, 23, 29>>

Coprime210(q) == q % 2 # 0 /\ q % 3 # 0 /\ q % 5 # 0 /\ q % 7 # 0

\* the 48 residues modulo 210 that are coprime to 2, 3, 5 and 7
W210 ==
  <<  1,  11,  13,  17,  19,  23,  29,  31,  37,  41,  43,  47,
     53,  59,  61,  67,  71,  73,  79,  83,  89,  97, 101, 103,
    107, 109, 113, 121, 127, 131, 137, 139, 143, 149, 151, 157,
    163, 167, 169, 173, 179, 181, 187, 191, 193, 197, 199, 209>>

BitOf(n) == (CHOOSE i \in 1..8 : Res30[i] = n % 30) - 1

\* wheelIndex = 48 * (class of the prime modulo 30) + (class of the cofactor modulo 210)
WheelClass(w) == w \div 48
WheelPos(w) == w % 48

\* one element of the wheel table
wheel(w) ==
  LET r == Res30[WheelClass(w) + 1]
      j == WheelPos(w)
      q == W210[j + 1]
      f == (IF j = 47 THEN 211 ELSE W210[j + 2]) - q
      nmod == (r * q) % 30
  IN [unsetBit |-> BitOf(nmod),
      nextMultipleFactor |-> f,
      correct |-> (nmod + r * f) \div 30,
      next |-> IF j = 47 THEN 0 - 47 ELSE 1]

getMaxFactor == 10

\* sieve[multipleIndex] &= mask; advance multipleIndex and wheelIndex
unsetBit(sv, sievingPrime, multipleIndex, wheelIndex) ==
  LET we == wheel(wheelIndex)
  IN [sieve |-> [sv EXCEPT ![multipleIndex + 1] = @ \ {we.unsetBit}],
      multipleIndex |-> multipleIndex + we.nextMultipleFactor * sievingPrime + we.correct,
      wheelIndex |-> wheelIndex + we.next]

\* wheel index of the multiple p * q
WheelIndexOf(p, q) ==
  48 * BitOf(p) + ((CHOOSE j \in 1..48 : W210[j] = q % 210) - 1)

-----------------------------------------------------------------------------
(* EratBig.h: Bucket and WheelPrime *)

WheelPrime(sievingPrime, multipleIndex, wheelIndex) ==
  [sievingPrime |-> sievingPrime, multipleIndex |-> multipleIndex, wheelIndex |-> wheelIndex]

\* Bucket::store: write the WheelPrime, report false when the bucket is now full
Bucket_store(bucket, wPrime) ==
  [bucket |-> [bucket EXCEPT !.wp = Append(@, wPrime)],
   ret |-> Len(bucket.wp) + 1 # BUCKET_SIZE]

Bucket_empty(bucket) == bucket.wp = <<>>
Bucket_hasNext(bucket) == bucket.next # NULL
Bucket_reset(bucket) == [bucket EXCEPT !.wp = <<>>]

\* the prime a WheelPrime stands for
PrimeOf(wPrime) ==
  NUMBERS_PER_BYTE * wPrime.sievingPrime + Res30[WheelClass(wPrime.wheelIndex) + 1]

-----------------------------------------------------------------------------
(* The EratBig object *)

\* bucket ids on the chain that starts at bucket b (at most n links followed)
RECURSIVE ChainFrom(_, _, _)
ChainFrom(m, b, n) ==
  IF b = NULL \/ n = 0 THEN <<>> ELSE <<b>> \o ChainFrom(m, m[b].next, n - 1)

\* the buckets of the chain that starts at bucket b
OnChain(m, b) == {ChainFrom(m, b, Len(m))[i] : i \in DOMAIN ChainFrom(m, b, Len(m))}

\* The history of a fresh object:
\*   pushedDirty   pushBucket has put a bucket that holds WheelPrimes at a list head
\*   allocEarly    a slab has been allocated while stock_ was not NULL
\*   detached      the bucket crossOff(uint8_t*) is processing (local variable
\*                 bucket); the chain from it is detached from lists_[0]
\*   aliased       a WheelPrime has been stored into a bucket of the detached chain
\*   unusable      a store has begun while some lists_ slot was NULL or had a
\*                 full head bucket
NoHist ==
  [pushedDirty |-> FALSE, allocEarly |-> FALSE, detached |-> NULL,
   aliased |-> FALSE, unusable |-> FALSE]

\* Statement sequencing: x is evaluated once, then Op is applied to its value.
Strict(x, Op(_)) == CHOOSE r \in {Op(y) : y \in {x}} : TRUE

Eng ==
  [lists_ |-> lists_, stock_ |-> stock_, pointers_ |-> pointers_,
   log2SieveSize_ |-> log2SieveSize_, moduloSieveSize_ |-> moduloSieveSize_,
   mem |-> mem, live |-> live, fuel |-> fuel, exc |-> exc, sieve |-> sieve,
   t |-> t, due |-> due, log |-> log, hist |-> hist]

Install(e) ==
  /\ lists_' = e.lists_
  /\ stock_' = e.stock_
  /\ pointers_' = e.pointers_
  /\ log2SieveSize_' = e.log2SieveSize_
  /\ moduloSieveSize_' = e.moduloSieveSize_
  /\ mem' = e.mem
  /\ live' = e.live
  /\ fuel' = e.fuel
  /\ exc' = e.exc
  /\ sieve' = e.sieve
  /\ t' = e.t
  /\ due' = e.due
  /\ log' = e.log
  /\ hist' = e.hist

\* new Bucket[BUCKETS_PER_ALLOC] and the linking of the new slab (lines 91-96)
allocSlab(e) ==
  LET base == Len(e.mem)
      slab == Len(e.pointers_) + 1
      more == [i \in 1..BUCKETS_PER_ALLOC |->
                 [next |-> IF i < BUCKETS_PER_ALLOC THEN base + i + 1 ELSE NULL,
                  wp |-> <<>>]]
  IN [e EXCEPT !.mem = @ \o more,
               !.stock_ = base + 1,
               !.pointers_ = Append(@, slab),
               !.live = @ \cup {slab},
               !.fuel = @ - 1,
               !.hist.allocEarly = @ \/ e.stock_ # NULL]

\* Bucket* bucket = stock_; ... lists_[segment] = bucket; (lines 98-101)
popStock(e, segment) ==
  [e EXCEPT !.stock_ = e.mem[e.stock_].next,
            !.mem[e.stock_].next = e.lists_[segment + 1],
            !.lists_[segment + 1] = e.stock_,
            !.hist.pushedDirty = @ \/ e.mem[e.stock_].wp # <<>>]

\* mutant: a new slab is allocated on every call, whether stock_ is empty or not
pushBucket_alwaysAlloc(e, segment) ==
  IF e.exc # "none" THEN e
  ELSE IF e.fuel = 0 THEN [e EXCEPT !.exc = "bad_alloc"]
  ELSE Strict(allocSlab(e), LAMBDA e1 : popStock(e1, segment))

pushBucket(e, segment) ==
  IF e.exc # "none" THEN e
  ELSE IF e.stock_ # NULL THEN popStock(e, segment)
  ELSE IF e.fuel = 0 THEN [e EXCEPT !.exc = "bad_alloc"]
  ELSE Strict(allocSlab(e), LAMBDA e1 : popStock(e1, segment))

\* mutant: one list fewer than the largest segment count needs
setListsSize_short(e, size_, sqrtStop_) ==
  LET maxSievingPrime == sqrtStop_ \div NUMBERS_PER_BYTE
      maxNextMultiple == maxSievingPrime * getMaxFactor + getMaxFactor
      maxMultipleIndex == size_ - 1 + maxNextMultiple
      maxSegmentCount == ShiftRight(maxMultipleIndex, e.log2SieveSize_)
  IN [e EXCEPT !.lists_ = [i \in 1..maxSegmentCount |-> NULL]]

\* mutant: the sieve size is left out of maxMultipleIndex (rounds down)
setListsSize_noRound(e, size_, sqrtStop_) ==
  LET maxSievingPrime == sqrtStop_ \div NUMBERS_PER_BYTE
      maxNextMultiple == maxSievingPrime * getMaxFactor + getMaxFactor
      maxSegmentCount == ShiftRight(maxNextMultiple, e.log2SieveSize_)
      size == maxSegmentCount + 1
  IN [e EXCEPT !.lists_ = [i \in 1..size |-> NULL]]

\* mutant: maxSegmentCount is rounded up to the next whole segment
setListsSize_roundUp(e, size_, sqrtStop_) ==
  LET maxSievingPrime == sqrtStop_ \div NUMBERS_PER_BYTE
      maxNextMultiple == maxSievingPrime * getMaxFactor + getMaxFactor
      maxMultipleIndex == size_ - 1 + maxNextMultiple
      maxSegmentCount == ShiftRight(maxMultipleIndex + size_ - 1, e.log2SieveSize_)
      size == maxSegmentCount + 1
  IN [e EXCEPT !.lists_ = [i \in 1..size |-> NULL]]

setListsSize(e, size_, sqrtStop_) ==
  LET maxSievingPrime == sqrtStop_ \div NUMBERS_PER_BYTE
      maxNextMultiple == maxSievingPrime * getMaxFactor + getMaxFactor
      maxMultipleIndex == size_ - 1 + maxNextMultiple
      maxSegmentCount == ShiftRight(maxMultipleIndex, e.log2SieveSize_)
      size == maxSegmentCount + 1
  IN [e EXCEPT !.lists_ = [i \in 1..size |-> NULL]]

\* mutant: the loop stops one list early (i < lists_.size() - 1)
RECURSIVE initFrom_skipLast(_, _)
initFrom_skipLast(e, i) ==
  IF e.exc # "none" \/ i >= Len(e.lists_) - 1 THEN e
  ELSE Strict(pushBucket(e, i), LAMBDA e1 : initFrom_skipLast(e1, i + 1))

RECURSIVE initFrom(_, _)
initFrom(e, i) ==
  IF e.exc # "none" \/ i >= Len(e.lists_) THEN e
  ELSE Strict(pushBucket(e, i), LAMBDA e1 : initFrom(e1, i + 1))

init(e) == initFrom(e, 0)

\* the object before the constructor body runs (member initialisers, lines 51-54)
EratBig_members(size_, fuel_) ==
  [lists_ |-> <<>>, stock_ |-> NULL, pointers_ |-> <<>>,
   log2SieveSize_ |-> ilog2(size_), moduloSieveSize_ |-> size_ - 1,
   mem |-> <<>>, live |-> {}, fuel |-> fuel_, exc |-> "none", sieve |-> <<>>,
   t |-> 0, due |-> <<>>, log |-> <<>>, hist |-> NoHist]

\* mutant: the power-of-2 test made after the lists are sized and filled
EratBig_lateCheck(size_, sqrtStop_, fuel_) ==
  Strict(EratBig_members(size_, fuel_), LAMBDA e :
    Strict(setListsSize(e, size_, sqrtStop_), LAMBDA e1 :
      Strict(init(e1), LAMBDA e2 :
        IF e2.exc = "none" /\ ~isPowerOf2(size_)
        THEN [e2 EXCEPT !.exc = "invalid_argument"] ELSE e2)))

EratBig(size_, sqrtStop_, fuel_) ==
  Strict(EratBig_members(size_, fuel_), LAMBDA e :
    IF ~isPowerOf2(size_) THEN [e EXCEPT !.exc = "invalid_argument"]
    ELSE Strict(setListsSize(e, size_, sqrtStop_), LAMBDA e1 : init(e1)))

\* ~EratBig: delete[] every slab registered in pointers_
dtor(e) == [e EXCEPT !.live = @ \ {e.pointers_[i] : i \in 1..Len(e.pointers_)}]

\* every lists_ slot points to a bucket that is not full
Usable(e) ==
  \A i \in DOMAIN e.lists_ :
    e.lists_[i] # NULL /\ Len(e.mem[e.lists_[i]].wp) < BUCKET_SIZE

\* mutant: the test of store()'s result is inverted
storeOrPush_inverted(e, segment, wPrime) ==
  IF e.exc # "none" THEN e
  ELSE IF segment >= Len(e.lists_) THEN [e EXCEPT !.exc = "out_of_range"]
  ELSE IF e.lists_[segment + 1] = NULL THEN [e EXCEPT !.exc = "null_deref"]
  ELSE IF Len(e.mem[e.lists_[segment + 1]].wp) >= BUCKET_SIZE
       THEN [e EXCEPT !.exc = "bucket_overflow"]
  ELSE Strict(Bucket_store(e.mem[e.lists_[segment + 1]], wPrime), LAMBDA r :
         Strict([e EXCEPT !.mem[e.lists_[segment + 1]] = r.bucket,
                          !.due = (PrimeOf(wPrime) :> [seg |-> e.t + segment, at |-> e.t]) @@ @,
                          !.hist.aliased = @ \/ e.lists_[segment + 1] \in
                                                  OnChain(e.mem, e.hist.detached),
                          !.hist.unusable = @ \/ ~Usable(e)],
                LAMBDA e1 : IF r.ret THEN pushBucket(e1, segment) ELSE e1))

\* if (!lists_[segment]->store(...)) pushBucket(segment);
\* (lines 114-115, 183-184, 185-186, 196-197); due records the routing
storeOrPush(e, segment, wPrime) ==
  IF e.exc # "none" THEN e
  ELSE IF segment >= Len(e.lists_) THEN [e EXCEPT !.exc = "out_of_range"]
  ELSE IF e.lists_[segment + 1] = NULL THEN [e EXCEPT !.exc = "null_deref"]
  ELSE IF Len(e.mem[e.lists_[segment + 1]].wp) >= BUCKET_SIZE
       THEN [e EXCEPT !.exc = "bucket_overflow"]
  ELSE Strict(Bucket_store(e.mem[e.lists_[segment + 1]], wPrime), LAMBDA r :
         Strict([e EXCEPT !.mem[e.lists_[segment + 1]] = r.bucket,
                          !.due = (PrimeOf(wPrime) :> [seg |-> e.t + segment, at |-> e.t]) @@ @,
                          !.hist.aliased = @ \/ e.lists_[segment + 1] \in
                                                  OnChain(e.mem, e.hist.detached),
                          !.hist.unusable = @ \/ ~Usable(e)],
                LAMBDA e1 : IF r.ret THEN e1 ELSE pushBucket(e1, segment)))

\* mutant: the multiple index is stored without being reduced modulo the sieve size
storeSievingPrime_noMask(e, sievingPrime, multipleIndex, wheelIndex) ==
  LET segment == ShiftRight(multipleIndex, e.log2SieveSize_)
  IN storeOrPush(e, segment, WheelPrime(sievingPrime, multipleIndex, wheelIndex))

storeSievingPrime(e, sievingPrime, multipleIndex, wheelIndex) ==
  LET segment == ShiftRight(multipleIndex, e.log2SieveSize_)
      m == BitAnd(multipleIndex, e.moduloSieveSize_)
  IN storeOrPush(e, segment, WheelPrime(sievingPrime, m, wheelIndex))

\* mutant: the segment is taken one bit too high (multipleIndex >> (log2SieveSize_ + 1))
wheelStep_shiftTooFar(e, sv, wPrime) ==
  Strict(unsetBit(sv, wPrime.sievingPrime, wPrime.multipleIndex, wPrime.wheelIndex),
         LAMBDA u :
           [sieve |-> u.sieve,
            segment |-> ShiftRight(u.multipleIndex, e.log2SieveSize_ + 1),
            wPrime |-> WheelPrime(wPrime.sievingPrime,
                                  BitAnd(u.multipleIndex, e.moduloSieveSize_),
                                  u.wheelIndex)])

\* unsetBit() of one WheelPrime, then segment = multipleIndex >> log2SieveSize_
\* and multipleIndex &= moduloSieveSize_ (lines 190-195, 166-180)
wheelStep(e, sv, wPrime) ==
  Strict(unsetBit(sv, wPrime.sievingPrime, wPrime.multipleIndex, wPrime.wheelIndex),
         LAMBDA u :
           [sieve |-> u.sieve,
            segment |-> ShiftRight(u.multipleIndex, e.log2SieveSize_),
            wPrime |-> WheelPrime(wPrime.sievingPrime,
                                  BitAnd(u.multipleIndex, e.moduloSieveSize_),
                                  u.wheelIndex)])

\* history entry of one wheel step
LogEntry(e, wPrime, segment) ==
  [p |-> PrimeOf(wPrime), m |-> wPrime.multipleIndex, w |-> wPrime.wheelIndex,
   t |-> e.t, segment |-> segment,
   due |-> IF PrimeOf(wPrime) \in DOMAIN e.due THEN e.due[PrimeOf(wPrime)].seg ELSE 0 - 1,
   at |-> IF PrimeOf(wPrime) \in DOMAIN e.due THEN e.due[PrimeOf(wPrime)].at ELSE 0 - 1]

\* mutant: the pairwise loop stops one pair early (wPrime + 2 < end)
RECURSIVE crossOffPairs_early(_, _, _)
crossOffPairs_early(e, wp, i) ==
  IF e.exc # "none" \/ i + 2 >= Len(wp) THEN [e |-> e, i |-> i]
  ELSE Strict(wheelStep(e, e.sieve, wp[i + 1]), LAMBDA s0 :
       Strict(wheelStep(e, s0.sieve, wp[i + 2]), LAMBDA s1 :
       Strict([e EXCEPT !.sieve = s1.sieve,
                        !.log = @ \o <<LogEntry(e, wp[i + 1], s0.segment),
                                       LogEntry(e, wp[i + 2], s1.segment)>>],
              LAMBDA e0 :
       Strict(storeOrPush(e0, s0.segment, s0.wPrime), LAMBDA e1 :
       Strict(storeOrPush(e1, s1.segment, s1.wPrime), LAMBDA e2 :
         crossOffPairs_early(e2, wp, i + 2))))))

\* mutant: the second unsetBit of a pair works on the sieve as it was before the first
RECURSIVE crossOffPairs_lostBit(_, _, _)
crossOffPairs_lostBit(e, wp, i) ==
  IF e.exc # "none" \/ i + 2 > Len(wp) THEN [e |-> e, i |-> i]
  ELSE Strict(wheelStep(e, e.sieve, wp[i + 1]), LAMBDA s0 :
       Strict(wheelStep(e, e.sieve, wp[i + 2]), LAMBDA s1 :
       Strict([e EXCEPT !.sieve = s1.sieve,
                        !.log = @ \o <<LogEntry(e, wp[i + 1], s0.segment),
                                       LogEntry(e, wp[i + 2], s1.segment)>>],
              LAMBDA e0 :
       Strict(storeOrPush(e0, s0.segment, s0.wPrime), LAMBDA e1 :
       Strict(storeOrPush(e1, s1.segment, s1.wPrime), LAMBDA e2 :
         crossOffPairs_lostBit(e2, wp, i + 2))))))

\* for (; wPrime + 2 <= end; wPrime += 2) (lines 165-187)
RECURSIVE crossOffPairs(_, _, _)
crossOffPairs(e, wp, i) ==
  IF e.exc # "none" \/ i + 2 > Len(wp) THEN [e |-> e, i |-> i]
  ELSE Strict(wheelStep(e, e.sieve, wp[i + 1]), LAMBDA s0 :
       Strict(wheelStep(e, s0.sieve, wp[i + 2]), LAMBDA s1 :
       Strict([e EXCEPT !.sieve = s1.sieve,
                        !.log = @ \o <<LogEntry(e, wp[i + 1], s0.segment),
                                       LogEntry(e, wp[i + 2], s1.segment)>>],
              LAMBDA e0 :
       Strict(storeOrPush(e0, s0.segment, s0.wPrime), LAMBDA e1 :
       Strict(storeOrPush(e1, s1.segment, s1.wPrime), LAMBDA e2 :
         crossOffPairs(e2, wp, i + 2))))))

\* mutant: the odd WheelPrime left over by the pairwise loop is dropped
crossOffTail_dropped(e, wp, i) == e

\* if (wPrime != end) (lines 189-198)
crossOffTail(e, wp, i) ==
  IF e.exc # "none" \/ i = Len(wp) THEN e
  ELSE Strict(wheelStep(e, e.sieve, wp[i + 1]), LAMBDA s :
       Strict([e EXCEPT !.sieve = s.sieve,
                        !.log = Append(@, LogEntry(e, wp[i + 1], s.segment))],
              LAMBDA e0 : storeOrPush(e0, s.segment, s.wPrime)))

\* crossOff(Bucket&, uint8_t*)
crossOffBucket(e, bucket) ==
  Strict(e.mem[bucket].wp, LAMBDA wp :
    Strict(crossOffPairs(e, wp, 0), LAMBDA r : crossOffTail(r.e, wp, r.i)))

\* mutant: the processed bucket becomes stock_ without old->setNext(stock_)
recycle_keepNext(e, old) ==
  [e EXCEPT !.mem[old] = Bucket_reset(@),
            !.stock_ = old,
            !.hist.detached = e.mem[old].next]

\* mutant: the processed bucket goes to stock_ without old->reset()
recycle_noReset(e, old) ==
  [e EXCEPT !.mem[old].next = e.stock_,
            !.stock_ = old,
            !.hist.detached = e.mem[old].next]

\* reset the processed bucket and move it to the bucket stock_ (lines 136-140)
recycle(e, old) ==
  [e EXCEPT !.mem[old] = [Bucket_reset(@) EXCEPT !.next = e.stock_],
            !.stock_ = old,
            !.hist.detached = e.mem[old].next]

\* do { crossOff(*bucket, sieve); ... } while (bucket != NULL); (lines 133-141)
RECURSIVE crossOffChain(_, _)
crossOffChain(e, bucket) ==
  IF e.exc # "none" THEN e
  ELSE Strict(crossOffBucket(e, bucket), LAMBDA e1 :
         IF e1.exc # "none" THEN e1
         ELSE Strict(e1.mem[bucket].next, LAMBDA nxt :
              Strict(recycle(e1, bucket), LAMBDA e2 :
                IF nxt # NULL THEN crossOffChain(e2, nxt) ELSE e2)))

\* mutant: lists_[0] is processed once only (if instead of while)
crossOffLoop_once(e) ==
  IF e.exc # "none" THEN e
  ELSE IF e.lists_[1] = NULL THEN [e EXCEPT !.exc = "null_deref"]
  ELSE IF Bucket_hasNext(e.mem[e.lists_[1]]) \/ ~Bucket_empty(e.mem[e.lists_[1]])
       THEN Strict(pushBucket([e EXCEPT !.lists_[1] = NULL,
                                       !.hist.detached = e.lists_[1]], 0), LAMBDA e1 :
              crossOffChain(e1, e.lists_[1]))
       ELSE e

\* mutant: the negation of list->empty() is lost
pending_negationLost(e) ==
  Bucket_hasNext(e.mem[e.lists_[1]]) \/ Bucket_empty(e.mem[e.lists_[1]])

\* the loop condition list->hasNext() || !list->empty() (line 129)
pending(e) ==
  Bucket_hasNext(e.mem[e.lists_[1]]) \/ ~Bucket_empty(e.mem[e.lists_[1]])

\* one iteration of the outer loop: detach the chain of lists_[0], give
\* lists_[0] an empty bucket, process the detached chain (lines 130-141)
loopBody(e) ==
  Strict(pushBucket([e EXCEPT !.lists_[1] = NULL,
                              !.hist.detached = e.lists_[1]], 0), LAMBDA e1 :
    crossOffChain(e1, e.lists_[1]))

\* while (list->hasNext() || !list->empty()) (lines 129-142)
RECURSIVE crossOffLoop(_)
crossOffLoop(e) ==
  IF e.exc # "none" THEN e
  ELSE IF e.lists_[1] = NULL THEN [e EXCEPT !.exc = "null_deref"]
  ELSE IF pending(e)
       THEN Strict(loopBody(e), LAMBDA e2 : crossOffLoop(e2))
       ELSE e

\* mutant: the tail slot is not overwritten after the shift (no lists_.back() = tmp)
rotate_staleTail(e) ==
  LET n == Len(e.lists_)
      copied == [i \in 1..n |-> IF i < n THEN e.lists_[i + 1] ELSE e.lists_[i]]
  IN [e EXCEPT !.lists_ = copied, !.t = @ + 1]

\* mutant: the lists are not shifted down
rotate_noCopy(e) == [e EXCEPT !.t = @ + 1]

\* std::copy(lists_.begin() + 1, lists_.end(), lists_.begin()); lists_.back() = tmp;
rotate(e) ==
  LET tmp == e.lists_[1]
      n == Len(e.lists_)
      copied == [i \in 1..n |-> IF i < n THEN e.lists_[i + 1] ELSE e.lists_[i]]
  IN [e EXCEPT !.lists_ = [copied EXCEPT ![n] = tmp], !.t = @ + 1]

\* crossOff(uint8_t* sieve)
crossOff(e, sv) ==
  Strict(crossOffLoop([e EXCEPT !.sieve = sv, !.log = <<>>]), LAMBDA e1 :
    IF e1.exc # "none" THEN e1 ELSE rotate(e1))

-----------------------------------------------------------------------------
(* The state machine *)

Init ==
  /\ pc = "new"
  /\ sieveSize \in SieveSizes
  /\ sqrtStop \in SqrtStops
  /\ start \in Starts
  /\ fuel \in Fuels
  /\ lists_ = <<>> /\ stock_ = NULL /\ pointers_ = <<>>
  /\ log2SieveSize_ = 0 /\ moduloSieveSize_ = 0
  /\ mem = <<>> /\ live = {} /\ exc = "none" /\ sieve = <<>>
  /\ t = 0 /\ due = <<>> /\ log = <<>> /\ hist = NoHist /\ stored = {}
  /\ last = [op |-> "none"]

Construct ==
  /\ pc = "new"
  /\ \E e \in {EratBig(sieveSize, sqrtStop, fuel)} :
        /\ Install(e)
        /\ pc' = IF e.exc = "none" THEN "ready" ELSE "ctor_threw"
  /\ last' = [op |-> "EratBig"]
  /\ UNCHANGED <<sieveSize, sqrtStop, start, stored>>

\* largest multipleIndex the engine is sized for (see setListsSize)
MaxMultipleIndex ==
  sieveSize - 1 + (sqrtStop \div NUMBERS_PER_BYTE) * getMaxFactor + getMaxFactor

\* low end of segment number n
SegmentLow(n) == start + NUMBERS_PER_BYTE * sieveSize * n

\* addSievingPrime: the driver hands over prime p with its multiple p * q,
\* the cofactor q coprime to 210, not below the current segment's low end
Store ==
  /\ pc = "ready"
  /\ Cardinality(stored) < MaxStored
  /\ \E p \in Primes \ {s.p : s \in stored} :
       \E q \in 11..((SegmentLow(t) + NUMBERS_PER_BYTE * (MaxMultipleIndex + 1)) \div p) :
         /\ p <= sqrtStop
         /\ Coprime210(q)
         /\ p * q >= SegmentLow(t)
         /\ \E multipleIndex \in {(p * q - SegmentLow(t)) \div NUMBERS_PER_BYTE} :
            \E e \in {storeSievingPrime(Eng, p \div NUMBERS_PER_BYTE, multipleIndex,
                                        WheelIndexOf(p, q))} :
               /\ Install(e)
               /\ pc' = IF e.exc = "none" THEN "ready" ELSE "threw"
               /\ stored' = stored \cup {[p |-> p, q |-> q]}
               /\ last' = [op |-> "storeSievingPrime",
                           sievingPrime |-> p \div NUMBERS_PER_BYTE,
                           multipleIndex |-> multipleIndex,
                           wheelIndex |-> WheelIndexOf(p, q)]
  /\ UNCHANGED <<sieveSize, sqrtStop, start>>

\* the driver sieves the next segment: crossOff on a fresh sieve array
CrossOff ==
  /\ pc = "ready"
  /\ t < MaxSegments
  /\ \E e \in {crossOff(Eng, [i \in 1..sieveSize |-> 0..7])} :
        /\ Install(e)
        /\ pc' = IF e.exc = "none" THEN "ready" ELSE "threw"
  /\ last' = [op |-> "crossOff"]
  /\ UNCHANGED <<sieveSize, sqrtStop, start, stored>>

\* the owner destroys the engine
Destroy ==
  /\ pc \in {"ready", "threw"}
  /\ \E e \in {dtor(Eng)} : Install(e)
  /\ pc' = "destroyed"
  /\ last' = [op |-> "dtor"]
  /\ UNCHANGED <<sieveSize, sqrtStop, start, stored>>

Next == Construct \/ Store \/ CrossOff \/ Destroy

Spec == Init /\ [][Next]_vars

-----------------------------------------------------------------------------
(* The routing specification: an engine constructed for each sieve size and *)
(* sqrt(stop), probed with every WheelPrime it may be handed.  A probe      *)
(* applies the code to the constructed engine and records the outcome.      *)

InitRoute ==
  /\ pc = "route"
  /\ sieveSize \in {2 ^ k : k \in 0..MaxLog2}
  /\ sqrtStop \in RouteSqrtStops
  /\ start = 0
  /\ \E e \in {EratBig(sieveSize, sqrtStop, RouteFuel)} :
       /\ lists_ = e.lists_ /\ stock_ = e.stock_ /\ pointers_ = e.pointers_
       /\ log2SieveSize_ = e.log2SieveSize_ /\ moduloSieveSize_ = e.moduloSieveSize_
       /\ mem = e.mem /\ live = e.live /\ fuel = e.fuel /\ exc = e.exc
       /\ sieve = e.sieve /\ t = e.t /\ due = e.due /\ log = e.log
       /\ hist = e.hist
  /\ stored = {}
  /\ last = [op |-> "EratBig"]

\* storeSievingPrime with any multipleIndex up to the largest the engine is sized for
ProbeStore ==
  /\ pc = "route"
  /\ \E sp \in 0..(sqrtStop \div NUMBERS_PER_BYTE), m \in 0..MaxMultipleIndex, w \in {0, 383} :
       \E e \in {storeSievingPrime([Eng EXCEPT !.exc = "none"], sp, m, w)} :
         /\ exc' = e.exc
         /\ last' = [op |-> "storeSievingPrime", sievingPrime |-> sp,
                     multipleIndex |-> m, wheelIndex |-> w,
                     segment |-> ShiftRight(m, log2SieveSize_)]
  /\ pc' = "probed"
  /\ UNCHANGED <<sieveSize, sqrtStop, start, lists_, stock_, pointers_,
                 log2SieveSize_, moduloSieveSize_, mem, live, fuel, sieve, t,
                 due, log, hist, stored>>

\* the wheel step and routing of crossOff(Bucket&, uint8_t*) for a bucket that
\* holds one WheelPrime with an in-segment multipleIndex
ProbeCrossOff ==
  /\ pc = "route"
  /\ \E sp \in 0..(sqrtStop \div NUMBERS_PER_BYTE), m \in 0..(sieveSize - 1), w \in 0..383 :
       \E sv \in {[i \in 1..sieveSize |-> 0..7]} :
       \E e \in {crossOffBucket([Eng EXCEPT !.exc = "none", !.sieve = sv,
                                            !.mem = Append(@, [next |-> NULL,
                                                wp |-> <<WheelPrime(sp, m, w)>>])],
                                Len(mem) + 1)} :
         /\ exc' = e.exc
         /\ last' = [op |-> "crossOff", sievingPrime |-> sp,
                     multipleIndex |-> m, wheelIndex |-> w,
                     segment |-> wheelStep(Eng, sv, WheelPrime(sp, m, w)).segment]
  /\ pc' = "probed"
  /\ UNCHANGED <<sieveSize, sqrtStop, start, lists_, stock_, pointers_,
                 log2SieveSize_, moduloSieveSize_, mem, live, fuel, sieve, t,
                 due, log, hist, stored>>

NextRoute == ProbeStore \/ ProbeCrossOff

SpecRoute == InitRoute /\ [][NextRoute]_vars

-----------------------------------------------------------------------------
(* The loop specification: crossOff on a sieve array, taken one iteration  *)
(* of its outer loop at a time, so that a call which never leaves it is a   *)
(* behaviour of the model.  The thread inside crossOff keeps executing,     *)
(* hence weak fairness of the two steps it can take there.                  *)

\* entry of crossOff(uint8_t*) on a fresh sieve array (lines 122-127)
EnterCrossOff ==
  /\ pc = "ready"
  /\ t < MaxSegments
  /\ \E e \in {[Eng EXCEPT !.sieve = [i \in 1..sieveSize |-> 0..7], !.log = <<>>]} :
        Install(e)
  /\ pc' = "crossing"
  /\ last' = [op |-> "crossOff"]
  /\ UNCHANGED <<sieveSize, sqrtStop, start, stored>>

\* the loop condition holds: one iteration of the outer loop (lines 129-142)
LoopIteration ==
  /\ pc = "crossing"
  /\ pending(Eng)
  /\ \E e \in {loopBody(Eng)} :
        /\ Install(e)
        /\ pc' = IF e.exc = "none" THEN "crossing" ELSE "threw"
  /\ UNCHANGED <<sieveSize, sqrtStop, start, stored, last>>

\* the loop condition fails: rotate lists_ and return (lines 144-148)
LoopExit ==
  /\ pc = "crossing"
  /\ ~pending(Eng)
  /\ \E e \in {rotate(Eng)} : Install(e)
  /\ pc' = "ready"
  /\ UNCHANGED <<sieveSize, sqrtStop, start, stored, last>>

NextLoop == Construct \/ Store \/ EnterCrossOff \/ LoopIteration \/ LoopExit

SpecLoop ==
  Init /\ [][NextLoop]_vars /\ WF_vars(LoopIteration) /\ WF_vars(LoopExit)

-----------------------------------------------------------------------------
(* Observation of the state *)

ChainOf(ls, m, k) == ChainFrom(m, ls[k + 1], Len(m))

RECURSIVE Flatten(_, _)
Flatten(m, chain) ==
  IF chain = <<>> THEN <<>> ELSE m[Head(chain)].wp \o Flatten(m, Tail(chain))

\* the WheelPrimes of lists_[k], head bucket first
ListPrimesOf(ls, m, k) == Flatten(m, ChainOf(ls, m, k))
ListPrimes(k) == ListPrimesOf(lists_, mem, k)
ChainSet(k) == {ChainOf(lists_, mem, k)[i] : i \in DOMAIN ChainOf(lists_, mem, k)}

\* number of occurrences of x in sequence sq
Count(sq, x) == Cardinality({i \in DOMAIN sq : sq[i] = x})

\* the bucket slots that hold a WheelPrime of prime p
Holders(p) ==
  {h \in UNION {{<<b, i>> : i \in DOMAIN mem[b].wp} : b \in DOMAIN mem} :
     PrimeOf(mem[h[1]].wp[h[2]]) = p}

AllSlots == UNION {{<<b, i>> : i \in DOMAIN mem[b].wp} : b \in DOMAIN mem}

\* the cofactor coprime to 210 that follows q
NextCofactor(q) ==
  CHOOSE r \in (q + 1)..(q + 10) :
    Coprime210(r) /\ \A x \in (q + 1)..(r - 1) : ~Coprime210(x)

\* the first cofactor from q on whose multiple of p is not below lo
RECURSIVE CofactorFrom(_, _, _)
CofactorFrom(p, q, lo) ==
  IF p * q >= lo THEN q ELSE CofactorFrom(p, NextCofactor(q), lo)

\* where the next multiple of the stored prime s lies, counted from segment t
Expected(s) ==
  LET q == CofactorFrom(s.p, s.q, SegmentLow(t))
      byte == (s.p * q - SegmentLow(t)) \div NUMBERS_PER_BYTE
  IN [list |-> byte \div sieveSize,
      wPrime |-> WheelPrime(s.p \div NUMBERS_PER_BYTE, byte % sieveSize,
                            WheelIndexOf(s.p, q))]

\* the multiples of the stored primes that lie in segment n
MultiplesIn(n) ==
  UNION {{s.p * q : q \in {c \in s.q..(SegmentLow(n + 1) \div s.p) :
                             /\ Coprime210(c)
                             /\ s.p * c >= SegmentLow(n)
                             /\ s.p * c < SegmentLow(n + 1)}} : s \in stored}

\* the sieve array of segment n with exactly those multiples crossed off
ExpectedSieve(n) ==
  [i \in 1..sieveSize |->
     (0..7) \ {BitOf(m) : m \in {x \in MultiplesIn(n) :
                                   (x - SegmentLow(n)) \div NUMBERS_PER_BYTE = i - 1}}]

-----------------------------------------------------------------------------
(* The sequential reference of crossOff: the same call with each bucket     *)
(* processed one WheelPrime per iteration, in order.                        *)

RECURSIVE crossOffOneByOne(_, _, _)
crossOffOneByOne(e, wp, i) ==
  IF e.exc # "none" \/ i = Len(wp) THEN e
  ELSE Strict(wheelStep(e, e.sieve, wp[i + 1]), LAMBDA s :
       Strict([e EXCEPT !.sieve = s.sieve,
                        !.log = Append(@, LogEntry(e, wp[i + 1], s.segment))],
              LAMBDA e0 :
       Strict(storeOrPush(e0, s.segment, s.wPrime), LAMBDA e1 :
         crossOffOneByOne(e1, wp, i + 1))))

RECURSIVE RefChain(_, _)
RefChain(e, bucket) ==
  IF e.exc # "none" THEN e
  ELSE Strict(crossOffOneByOne(e, e.mem[bucket].wp, 0), LAMBDA e1 :
         IF e1.exc # "none" THEN e1
         ELSE Strict(e1.mem[bucket].next, LAMBDA nxt :
              Strict(recycle(e1, bucket), LAMBDA e2 :
                IF nxt # NULL THEN RefChain(e2, nxt) ELSE e2)))

RECURSIVE RefLoop(_)
RefLoop(e) ==
  IF e.exc # "none" THEN e
  ELSE IF Bucket_hasNext(e.mem[e.lists_[1]]) \/ ~Bucket_empty(e.mem[e.lists_[1]])
       THEN Strict(pushBucket([e EXCEPT !.lists_[1] = NULL,
                                       !.hist.detached = e.lists_[1]], 0), LAMBDA e1 :
            Strict(RefChain(e1, e.lists_[1]), LAMBDA e2 : RefLoop(e2)))
       ELSE e

RefCrossOff(e, sv) ==
  Strict(RefLoop([e EXCEPT !.sieve = sv, !.log = <<>>]), LAMBDA e1 :
    IF e1.exc # "none" THEN e1 ELSE rotate(e1))

FreshSieve == [i \in 1..sieveSize |-> 0..7]

\* sequence sq without its element number i
RemoveAt(sq, i) == SubSeq(sq, 1, i - 1) \o SubSeq(sq, i + 1, Len(sq))

-----------------------------------------------------------------------------
(* Claims *)

\* C1: constructing EratBig with a sieve size that is not a power of two
\* fails with invalid_argument, and at that moment no slab is allocated,
\* lists_ is neither sized nor filled and no sieving prime is stored.
C1_RejectedBeforeWork ==
  (pc # "new" /\ \A k \in 0..30 : sieveSize # 2 ^ k) =>
    /\ pc = "ctor_threw" /\ exc = "invalid_argument"
    /\ live = {} /\ pointers_ = <<>> /\ mem = <<>> /\ stock_ = NULL
    /\ lists_ = <<>> /\ stored = {}

C1_Witness == pc = "ctor_threw" /\ exc = "invalid_argument" /\ sieveSize = 6

\* C2: once a bad_alloc raised in pushBucket has left the engine (the
\* destructor having run only if the constructor had completed), no slab
\* remains allocated.
C2_SlabsReclaimed ==
  (exc = "bad_alloc" /\ pc \in {"ctor_threw", "destroyed"}) => live = {}

\* C3: after construction and after every storeSievingPrime and crossOff,
\* every sieving prime stored so far is held in exactly one bucket slot, that
\* bucket is on the chain of lists_[k] and of no other list, k being the
\* number of segments ahead in which the prime's next multiple lies, and the
\* slot holds that multiple's index and wheel index; no other slot is in use.
C3_EachPrimeInItsList ==
  pc = "ready" =>
    /\ \A s \in stored :
         LET holders == Holders(s.p)
             expected == Expected(s)
         IN /\ Cardinality(holders) = 1
            /\ \A h \in holders :
                 /\ mem[h[1]].wp[h[2]] = expected.wPrime
                 /\ \A k \in 0..(Len(lists_) - 1) :
                      (h[1] \in ChainSet(k)) <=> (k = expected.list)
    /\ Cardinality(AllSlots) = Cardinality(stored)

C3_Witness ==
  /\ pc = "ready" /\ last.op = "crossOff" /\ t >= 2
  /\ Cardinality(stored) = 3
  /\ \E i, j \in DOMAIN log : log[i].p # log[j].p

\* C4: a sieving prime routed to the list k segments ahead stays on the list
\* of that segment while lists_ rotates (it sits on lists_[k - j] after j
\* further crossOff calls), no crossOff call before the one of its segment
\* takes a wheel step with it, and the crossOff call of its segment does.
C4_CrossedOffInItsSegment ==
  pc = "ready" =>
    /\ \A i \in DOMAIN log : log[i].due = log[i].t
    /\ \A p \in DOMAIN due :
         /\ due[p].seg >= t
         /\ \A h \in Holders(p) : h[1] \in ChainSet(due[p].seg - t)

C4_Witness ==
  /\ pc = "ready" /\ last.op = "crossOff"
  /\ \E i \in DOMAIN log : log[i].due - log[i].at >= 2 /\ log[i].t = log[i].due

\* C5 as claimed: every wheel step taken in crossOff routes its prime p to a
\* list k >= 1 segments ahead with k*S*30 >= 2*p.
C5_Original ==
  \A i \in DOMAIN log :
    /\ log[i].segment >= 1
    /\ log[i].segment * sieveSize * NUMBERS_PER_BYTE >= 2 * log[i].p

\* C5 as amended: every wheel step taken in crossOff routes its prime p to a
\* list k >= 0 segments ahead with (k+1)*S*30 > 2*p; the step stays in the
\* segment being processed (k = 0) only for primes with p < 15*S.
C5_RoutedAhead ==
  \A i \in DOMAIN log :
    /\ log[i].segment >= 0
    /\ (log[i].segment + 1) * sieveSize * NUMBERS_PER_BYTE > 2 * log[i].p
    /\ (log[i].segment = 0 => log[i].p < 15 * sieveSize)
    /\ (log[i].p >= 15 * sieveSize => log[i].segment >= 1)

C5_Witness ==
  /\ \E i \in DOMAIN log : log[i].segment = 0 /\ log[i].p * NUMBERS_PER_BYTE >= sieveSize
  /\ \E i \in DOMAIN log : log[i].segment >= 1 /\ log[i].p >= 15 * sieveSize

\* C6: no store indexes lists_ out of range: for every sievingPrime up to
\* sqrtStop/30, the segment index computed in crossOff after a wheel step
\* from any in-segment multipleIndex, and the one computed in
\* storeSievingPrime for any multipleIndex up to
\* S - 1 + maxSievingPrime*maxFactor + maxFactor, is below lists_.size().
C6_ListsIndexInRange ==
  pc = "probed" =>
    /\ exc = "none"
    /\ last.segment < Len(lists_)

C6_Witness ==
  /\ pc = "probed" /\ last.op = "crossOff" /\ exc = "none"
  /\ last.sievingPrime = 2
  /\ last.segment = Len(lists_) - 1

\* C7: when crossOff returns, every multiple of a stored sieving prime that
\* lies in the segment just processed has been crossed off (also those of
\* primes routed back into lists_[0] during the call) and nothing else, and
\* lists_.back() is a single empty bucket without successor.
C7_DrainedBeforeRotation ==
  (pc = "ready" /\ last.op = "crossOff") =>
    /\ sieve = ExpectedSieve(t - 1)
    /\ lists_[Len(lists_)] # NULL
    /\ mem[lists_[Len(lists_)]].wp = <<>>
    /\ mem[lists_[Len(lists_)]].next = NULL

C7_Witness ==
  /\ pc = "ready" /\ last.op = "crossOff"
  /\ \E i, j \in DOMAIN log : i < j /\ log[i].p = log[j].p

\* C8: storeSievingPrime(p, m, w) adds exactly one WheelPrime
\* (p, m & (S-1), w) to the chain of lists_[m >> L], with
\* m = (m >> L)*S + (m & (S-1)); every other list and every WheelPrime
\* already stored is left as it was.
C8_StoreAddsOneTriple ==
  [][last'.op = "storeSievingPrime" =>
       LET m == last'.multipleIndex
           seg == m \div sieveSize
           w == WheelPrime(last'.sievingPrime, m % sieveSize, last'.wheelIndex)
           new == ListPrimesOf(lists_', mem', seg)
       IN /\ Len(lists_') = Len(lists_)
          /\ m = ShiftRight(m, log2SieveSize_) * sieveSize + BitAnd(m, moduloSieveSize_)
          /\ \E i \in DOMAIN new : new[i] = w /\ RemoveAt(new, i) = ListPrimes(seg)
          /\ \A k \in 0..(Len(lists_) - 1) :
               k # seg => ListPrimesOf(lists_', mem', k) = ListPrimes(k)]_vars

C8_Witness ==
  /\ pc = "ready" /\ last.op = "storeSievingPrime"
  /\ last.multipleIndex >= 2 * sieveSize
  /\ Cardinality(stored) = 3
  /\ Len(ListPrimes(last.multipleIndex \div sieveSize)) >= 2

\* C9 as claimed: whenever a store takes a bucket from stock_ and makes it
\* the head of lists_[segment], the stored WheelPrime ends up in that new
\* head bucket.
C9_Original ==
  [][(last'.op = "storeSievingPrime" /\ exc' = "none") =>
       LET seg == last'.multipleIndex \div sieveSize
           w == WheelPrime(last'.sievingPrime, last'.multipleIndex % sieveSize,
                           last'.wheelIndex)
       IN lists_'[seg + 1] # lists_[seg + 1] =>
            Count(mem'[lists_'[seg + 1]].wp, w) = 1]_vars

\* C9 as amended: the WheelPrime is always written into the bucket that is
\* the head of lists_[segment] when the store begins, and that bucket is not
\* full then; a bucket is taken from stock_ exactly when this write has
\* filled the head bucket, and it becomes the new, empty head in front of
\* the bucket just filled.
C9_PushAfterFilling ==
  [][(last'.op = "storeSievingPrime" /\ exc' = "none") =>
       LET seg == last'.multipleIndex \div sieveSize
           w == WheelPrime(last'.sievingPrime, last'.multipleIndex % sieveSize,
                           last'.wheelIndex)
           old == lists_[seg + 1]
           new == lists_'[seg + 1]
       IN /\ Len(mem[old].wp) < BUCKET_SIZE
          /\ mem'[old].wp = Append(mem[old].wp, w)
          /\ (new # old) <=> (Len(mem'[old].wp) = BUCKET_SIZE)
          /\ new # old =>
               /\ mem'[new].wp = <<>>
               /\ mem'[new].next = old
               /\ (stock_ # NULL => new = stock_)]_vars

C9_Witness ==
  /\ pc = "ready" /\ last.op = "storeSievingPrime"
  /\ LET seg == last.multipleIndex \div sieveSize
         w == WheelPrime(last.sievingPrime, last.multipleIndex % sieveSize,
                         last.wheelIndex)
         head == lists_[seg + 1]
     IN /\ mem[head].wp = <<>>
        /\ mem[head].next # NULL
        /\ Len(mem[mem[head].next].wp) = BUCKET_SIZE
        /\ mem[mem[head].next].wp[BUCKET_SIZE] = w

\* C10: whenever a crossOff call completes, its result (the bits cleared,
\* the contents and order of every lists_ chain, the wheel steps taken) is
\* that of the same call with every bucket processed one WheelPrime per
\* iteration in order, whatever the number of WheelPrimes in a bucket.
C10_UnrolledEqualsSequential ==
  (pc = "ready" /\ crossOff(Eng, FreshSieve).exc = "none") =>
    crossOff(Eng, FreshSieve) = RefCrossOff(Eng, FreshSieve)

C10_Witness ==
  /\ pc = "ready" /\ t < MaxSegments
  /\ crossOff(Eng, FreshSieve).exc = "none"
  /\ mem[lists_[1]].wp = <<>>
  /\ mem[lists_[1]].next # NULL
  /\ Len(mem[mem[lists_[1]].next].wp) = 3

\* C11: every bucket on the stock_ free list holds no WheelPrime, and no
\* pushBucket call has put a bucket that holds WheelPrimes at a list head.
C11_StockBucketsEmpty ==
  pc # "destroyed" =>
    /\ \A b \in OnChain(mem, stock_) : mem[b].wp = <<>>
    /\ ~hist.pushedDirty

C11_Witness ==
  /\ pc = "ready" /\ last.op = "crossOff"
  /\ Len(log) >= 3
  /\ Cardinality(OnChain(mem, stock_)) >= 2

\* the elements of a sequence
Range(sq) == {sq[i] : i \in DOMAIN sq}

\* C12: a slab is allocated only by a pushBucket call that finds stock_
\* empty, and by every such call; each slab is appended to pointers_ once
\* when it is allocated; storeSievingPrime and crossOff free nothing; the
\* destructor finds every registered slab allocated, each registered once,
\* and frees them all.
C12_SlabManagedOnly ==
  [][/\ ~hist'.allocEarly
     /\ last'.op \in {"EratBig", "storeSievingPrime", "crossOff"} =>
          /\ live \subseteq live'
          /\ SubSeq(pointers_', 1, Len(pointers_)) = pointers_
          /\ live' \ live = {pointers_'[i] : i \in (Len(pointers_) + 1)..Len(pointers_')}
          /\ Cardinality(live' \ live) = Len(pointers_') - Len(pointers_)
     /\ (last'.op = "EratBig" /\ exc' = "none") =>
          /\ (Len(pointers_') - 1) * BUCKETS_PER_ALLOC < Len(lists_')
          /\ Len(lists_') <= Len(pointers_') * BUCKETS_PER_ALLOC
     /\ last'.op = "storeSievingPrime" =>
          LET head == lists_[last'.multipleIndex \div sieveSize + 1]
              needsSlab == Len(mem[head].wp) = BUCKET_SIZE - 1 /\ stock_ = NULL
          IN /\ (needsSlab /\ fuel > 0) <=> Len(pointers_') = Len(pointers_) + 1
             /\ (needsSlab /\ fuel = 0) <=> exc' = "bad_alloc"
             /\ ~needsSlab => pointers_' = pointers_
     /\ last'.op = "dtor" =>
          /\ Cardinality(Range(pointers_)) = Len(pointers_)
          /\ Range(pointers_) = live
          /\ live' = {}]_vars

C12_Witness ==
  /\ pc = "destroyed" /\ exc = "none"
  /\ Len(lists_) < (Len(pointers_) - 1) * BUCKETS_PER_ALLOC
  /\ live = {}

\* the least k with k * b >= a (a >= 0, b >= 1)
CeilDiv(a, b) == CHOOSE k \in 0..a : k * b >= a /\ (k = 0 \/ (k - 1) * b < a)

\* maxSievingPrime * maxFactor + maxFactor with maxSievingPrime = sqrtStop / 30
MaxNextMultiple == (sqrtStop \div NUMBERS_PER_BYTE) * getMaxFactor + getMaxFactor

\* C13: lists_ has S_horizon + 1 heads with
\* S_horizon = ceil(maxNextMultiple / S), for every power-of-two sieve size S
\* and every sqrtStop.
C13_ListsCount ==
  pc \in {"route", "probed"} =>
    Len(lists_) = CeilDiv(MaxNextMultiple, sieveSize) + 1

C13_Witness ==
  /\ pc = "route" /\ sieveSize = 8 /\ sqrtStop = 89
  /\ MaxNextMultiple = 30
  /\ Len(lists_) = 5

\* C14 as claimed: the largest list index equals
\* ceil((S - 1 + p_max*maxFactor + maxFactor) / S).
C14_Original ==
  pc \in {"route", "probed"} =>
    Len(lists_) - 1 = CeilDiv(sieveSize - 1 + MaxNextMultiple, sieveSize)

\* C14 as amended: the largest list index equals
\* floor((S - 1 + p_max*maxFactor + maxFactor) / S), which is one less than
\* the claimed ceiling unless S divides S - 1 + p_max*maxFactor + maxFactor.
C14_HorizonRoundsDown ==
  pc \in {"route", "probed"} =>
    LET x == sieveSize - 1 + MaxNextMultiple
    IN /\ Len(lists_) - 1 = x \div sieveSize
       /\ IF x % sieveSize = 0
          THEN Len(lists_) - 1 = CeilDiv(x, sieveSize)
          ELSE Len(lists_) - 1 = CeilDiv(x, sieveSize) - 1

C14_Witness ==
  /\ pc = "route" /\ sieveSize = 4 /\ sqrtStop = 89
  /\ (sieveSize - 1 + MaxNextMultiple) % sieveSize # 0
  /\ Len(lists_) - 1 = 8

\* C15 as claimed: after the rotation at the end of crossOff the tail slot
\* lists_.back() points to a bucket that is also reachable from another
\* lists_ slot or from stock_.
C15_Original ==
  (pc = "ready" /\ last.op = "crossOff") =>
    \/ lists_[Len(lists_)] \in OnChain(mem, stock_)
    \/ \E k \in 0..(Len(lists_) - 2) : lists_[Len(lists_)] \in ChainSet(k)

\* C15 as amended: after the rotation the tail slot lists_.back() points to
\* the drained bucket that was lists_[0], which is reachable neither from
\* any other lists_ slot nor from stock_.
C15_TailNotStale ==
  (pc = "ready" /\ last.op = "crossOff") =>
    /\ lists_[Len(lists_)] # NULL
    /\ lists_[Len(lists_)] \notin OnChain(mem, stock_)
    /\ \A k \in 0..(Len(lists_) - 2) : lists_[Len(lists_)] \notin ChainSet(k)

C15_Witness ==
  /\ pc = "ready" /\ last.op = "crossOff"
  /\ Len(lists_) >= 2 /\ Len(log) >= 1
  /\ stock_ # NULL
  /\ lists_[Len(lists_)] \notin OnChain(mem, stock_)

\* the permutations of 1..n
Perms(n) == {f \in [1..n -> 1..n] : \A i, j \in 1..n : f[i] = f[j] => i = j}

RECURSIVE SumSeq(_)
SumSeq(sq) == IF sq = <<>> THEN 0 ELSE Head(sq) + SumSeq(Tail(sq))

\* the ways to spread total WheelPrimes over n chained buckets, head first,
\* the head bucket not full
Splits(n, total) ==
  {c \in [1..n -> 0..BUCKET_SIZE] : SumSeq(c) = total /\ c[1] < BUCKET_SIZE}

\* bucket memory m with the WheelPrimes sq written to the buckets of chain,
\* counts[i] of them to the i-th bucket
RECURSIVE Refill(_, _, _, _)
Refill(m, chain, sq, counts) ==
  IF chain = <<>> THEN m
  ELSE Refill([m EXCEPT ![Head(chain)].wp = SubSeq(sq, 1, Head(counts))],
              Tail(chain), SubSeq(sq, Head(counts) + 1, Len(sq)), Tail(counts))

\* the bucket memories that hold the WheelPrimes of lists_[0] in any order
\* and in any distribution over the buckets of its chain
Rearranged ==
  LET chain == ChainOf(lists_, mem, 0)
      wps == ListPrimes(0)
  IN {Refill(mem, chain, [i \in 1..Len(wps) |-> wps[f[i]]], c) :
        f \in Perms(Len(wps)), c \in Splits(Len(chain), Len(wps))}

\* the multiset of the elements of a sequence
BagOf(sq) == [x \in Range(sq) |-> Count(sq, x)]

\* C16: for the WheelPrimes held in lists_[0], the bits cleared by a
\* completed crossOff call and the multiset of WheelPrimes in every lists_[k]
\* afterwards are the same for every order of these WheelPrimes and every
\* distribution of them over the buckets of lists_[0].
C16_OrderIndependent ==
  pc = "ready" =>
    \A base \in {crossOff(Eng, FreshSieve)} :
      \A m \in Rearranged :
        \A r \in {crossOff([Eng EXCEPT !.mem = m], FreshSieve)} :
          (base.exc = "none" /\ r.exc = "none") =>
            /\ r.sieve = base.sieve
            /\ \A k \in 0..(Len(lists_) - 1) :
                 BagOf(ListPrimesOf(r.lists_, r.mem, k)) =
                   BagOf(ListPrimesOf(base.lists_, base.mem, k))

C16_Witness ==
  /\ pc = "ready" /\ t < MaxSegments
  /\ Len(ListPrimes(0)) = 3
  /\ Len(ChainOf(lists_, mem, 0)) = 2
  /\ Cardinality(Rearranged) >= 18
  /\ \A m \in Rearranged : crossOff([Eng EXCEPT !.mem = m], FreshSieve).exc = "none"

\* C17: after construction, after each storeSievingPrime and after each
\* crossOff every lists_[i] is non-NULL with a head bucket that is not full,
\* the same holds whenever a store begins inside crossOff(bucket, sieve), and
\* no store dereferences NULL or writes past a bucket's capacity.
C17_ListsUsable ==
  /\ exc \notin {"null_deref", "bucket_overflow", "out_of_range"}
  /\ ~hist.unusable
  /\ pc = "ready" => Usable(Eng)

C17_Witness ==
  /\ pc = "ready" /\ last.op = "crossOff"
  /\ Len(log) >= 2
  /\ \E i \in DOMAIN lists_ : Len(mem[lists_[i]].wp) = BUCKET_SIZE - 1

\* the buckets found by walking the stock_ free list, then the detached
\* chain crossOff is processing, then the chain of every lists_ slot from k on
RECURSIVE ListChains(_)
ListChains(k) ==
  IF k >= Len(lists_) THEN <<>> ELSE ChainOf(lists_, mem, k) \o ListChains(k + 1)

Placed ==
  ChainFrom(mem, stock_, Len(mem)) \o ChainFrom(mem, hist.detached, Len(mem))
    \o ListChains(0)

\* C18: there are BUCKETS_PER_ALLOC buckets per slab of pointers_; each
\* bucket is in exactly one place (met exactly once when walking stock_, the
\* detached chain being processed and every lists_ chain), and no
\* WheelPrime has been stored into a bucket of the detached chain.
C18_BucketsConserved ==
  pc # "destroyed" =>
    /\ Len(mem) = BUCKETS_PER_ALLOC * Len(pointers_)
    /\ Len(Placed) = Len(mem)
    /\ Range(Placed) = DOMAIN mem
    /\ ~hist.aliased

C18_Witness ==
  /\ pc = "threw" /\ last.op = "crossOff" /\ exc = "bad_alloc"
  /\ hist.detached # NULL
  /\ Len(log) >= 1
  /\ Range(Placed) = DOMAIN mem

\* C19: crossOff terminates.  Every call that has entered its outer loop
\* leaves it, returning unless an allocation failed, however many times
\* WheelPrimes are put back into lists_[0] during the call; the step that
\* returns finds lists_[0] drained and rotates lists_ by exactly one slot,
\* and no step inside the loop rotates.
C19_CrossOffTerminates ==
  /\ (pc = "crossing") ~> (pc = "ready" \/ exc = "bad_alloc")
  /\ [][pc = "crossing" =>
          IF pc' = "ready"
          THEN /\ mem[lists_[1]].wp = <<>> /\ mem[lists_[1]].next = NULL
               /\ t' = t + 1
               /\ Len(lists_') = Len(lists_)
               /\ \A i \in 1..(Len(lists_) - 1) : lists_'[i] = lists_[i + 1]
               /\ lists_'[Len(lists_)] = lists_[1]
          ELSE t' = t /\ Len(lists_') = Len(lists_)]_vars

\* a call has returned after a WheelPrime was put back into lists_[0] and
\* crossed off again, which took the outer loop at least two iterations
C19_Witness ==
  /\ pc = "ready" /\ last.op = "crossOff" /\ exc = "none"
  /\ \E i, j \in DOMAIN log :
       /\ i < j
       /\ log[i].segment = 0
       /\ log[j].p = log[i].p
       /\ log[j].segment >= 1
  /\ t >= 2

=============================================================================
